---------------------------- MODULE Spec2Model ----------------------------
(***************************************************************************)
(* Verification model of the pense optimisation core:                      *)
(*   - IRWEN::compute            (src/src/IRWEN.cpp, lines 1-102)          *)
(*   - ENDal (DAL elastic net)   (src/src/IRWEN.cpp, lines 104-810)        *)
(*   - pense::CDPense            (src/unnamed/part_001)                    *)
(*                                                                         *)
(* C++ doubles are modelled as fixed-point numbers: the integer v stands   *)
(* for the real v / Scale, and every product and quotient is rounded to    *)
(* the nearest representable number, as floating point rounds.             *)
(***************************************************************************)
EXTENDS Integers, Sequences, FiniteSets, TLC

VARIABLES
    irwen,      \* the IRWEN object and the frame of IRWEN::compute
    pcIrwen,    \* position of IRWEN::compute
    cd,         \* the CDPense object
    cdf,        \* the frame of CDPense::Optimize(max_it)
    pcCD,       \* position of CDPense::Optimize(max_it)
    cdRet,      \* what the last CDPense call returned or threw
    en,         \* the ENDal object
    enc,        \* the frame of computeCoefs / computeCoefsWeighted and the
                \* caller's buffers coefs (intercept, beta) and resids
    dalf,       \* the frame of ENDal::dal
    phif,       \* the frame of ENDal::minimizePhi
    pcEN        \* position of the ENDal call in progress

varsIrwen == <<irwen, pcIrwen>>

varsCD == <<cd, cdf, pcCD, cdRet>>

varsEN == <<en, enc, dalf, phif, pcEN>>

vars == <<irwen, pcIrwen, cd, cdf, pcCD, cdRet, en, enc, dalf, phif, pcEN>>

\* the objects a specification does not use are absent
NoIrwen == irwen = <<>> /\ pcIrwen = "absent"

NoCD == cd = <<>> /\ cdf = <<>> /\ pcCD = "absent" /\ cdRet = <<>>

NoEN == en = <<>> /\ enc = <<>> /\ dalf = <<>> /\ phif = <<>> /\ pcEN = "absent"

--------------------------------------------------------------------------
(* Fixed-point arithmetic                                                  *)

\* resolution of the fixed-point numbers: v stands for v / Scale
Scale == 100

Abs(x) == IF x < 0 THEN -x ELSE x

Max(x, y) == IF x >= y THEN x ELSE y

Min(x, y) == IF x <= y THEN x ELSE y

\* n / d rounded to the nearest integer (ties away from zero), d # 0
RDiv(n, d) ==
    LET s == IF (n < 0) = (d < 0) THEN 1 ELSE -1
    IN  s * ((2 * Abs(n) + Abs(d)) \div (2 * Abs(d)))

\* x * y of two doubles
FMul(x, y) == RDiv(x * y, Scale)

\* x / y of two doubles, y # 0
FDiv(x, y) == RDiv(x * Scale, y)

\* the double nearest to the decimal literal n / d
Lit(n, d) == RDiv(n * Scale, d)

\* floor of the square root of the natural number k, by bisection on lo..hi
RECURSIVE ISqrtIn(_, _, _)
ISqrtIn(k, lo, hi) ==
    IF lo >= hi THEN lo
    ELSE LET mid == (lo + hi + 1) \div 2
         IN  IF mid * mid <= k THEN ISqrtIn(k, mid, hi) ELSE ISqrtIn(k, lo, mid - 1)

\* sqrt(x) of a double x >= 0, rounded to the nearest double
FSqrt(x) ==
    LET k == x * Scale
        r == ISqrtIn(k, 0, Max(1, Min(k, 46340)))
    IN  IF k - r * r > r THEN r + 1 ELSE r

--------------------------------------------------------------------------
(* Vectors are sequences of doubles                                        *)

RECURSIVE SumSeq(_)
SumSeq(s) == IF s = <<>> THEN 0 ELSE Head(s) + SumSeq(Tail(s))

ZeroVec(n) == [i \in 1..n |-> 0]

\* dot(x, y)
Dot(x, y) == SumSeq([i \in 1..Len(x) |-> FMul(x[i], y[i])])

VecSub(x, y) == [i \in 1..Len(x) |-> x[i] - y[i]]

VecAdd(x, y) == [i \in 1..Len(x) |-> x[i] + y[i]]

\* c * x for a scalar c
VecScale(c, x) == [i \in 1..Len(x) |-> FMul(c, x[i])]

\* x - c for a scalar c
VecShift(x, c) == [i \in 1..Len(x) |-> x[i] - c]

\* the set of all vectors of length n over the values S
Vectors(n, S) == [1..n -> S]

--------------------------------------------------------------------------
(* Datasets: Xtr holds one row per variable (row 1 is the intercept        *)
(* column of ones) and one column per observation                          *)

MkData(y, Xtr) == [numObs |-> Len(y), numVar |-> Len(Xtr), y |-> y, Xtr |-> Xtr]

\* y - X * coef, the residuals of the coefficients coef (olsreg.h)
computeResiduals(data, coef) ==
    [i \in 1..data.numObs |->
        data.y[i] - SumSeq([j \in 1..data.numVar |-> FMul(data.Xtr[j][i], coef[j])])]

--------------------------------------------------------------------------
(* IRWEN                                                                   *)

\* static const double NUMERICAL_TOLERANCE = NUMERIC_EPS, at the model's resolution
NUMERICAL_TOLERANCE == 2

\* largest value of the option "maxit" tried
IrwenMaxIt == 3

\* values of the option "eps" tried
IrwenEpsOpts == {0, Lit(1, 2), 2 * Scale}

\* values a coefficient takes: zero, numerically zero, clearly non-zero
IrwenCoefVals == {0, Lit(1, 10), Scale}

\* values the weighting rule gives an observation
IrwenWeightVals == {0, Scale}

IrwenData == MkData(<<Scale, 2 * Scale>>, << <<Scale, Scale>>, <<0, Scale>> >>)

\* IRWEN::IRWEN: maxIt and eps from the options, eps squared
IRWEN_new(data, optMaxIt, optEps) ==
    [ data         |-> data,
      maxIt        |-> optMaxIt,
      eps          |-> FMul(optEps, optEps),
      weights      |-> ZeroVec(data.numObs),
      iteration    |-> 0,
      relChangeVal |-> 0,
      currentCoef  |-> ZeroVec(data.numVar),
      residuals    |-> ZeroVec(data.numObs),
      oldCoef      |-> ZeroVec(data.numVar),
      norm2Old     |-> 0,
      enStatus     |-> 0,
      enCalls      |-> 0,
      warned       |-> FALSE ]

\* sum of tmp * tmp over tmp = oldCoef[j] - currentCoef[j]
SqChange(oldCoef, currentCoef) ==
    SumSeq([j \in 1..Len(oldCoef) |->
               FMul(oldCoef[j] - currentCoef[j], oldCoef[j] - currentCoef[j])])

\* sum of oldCoef[j] * oldCoef[j]
SqNorm(coef) == SumSeq([j \in 1..Len(coef) |-> FMul(coef[j], coef[j])])

\* RelChange without the "barely moved" branch
RelChange_NoZeroBranch(oldCoef, currentCoef, eps) ==
    LET change   == SqChange(oldCoef, currentCoef)
        norm2Old == SqNorm(oldCoef)
    IN  IF norm2Old < NUMERICAL_TOLERANCE
        THEN 2 * eps
        ELSE FDiv(change, norm2Old)

\* the relative change IRWEN::compute stores after a solve
RelChange(oldCoef, currentCoef, eps) ==
    LET change   == SqChange(oldCoef, currentCoef)
        norm2Old == SqNorm(oldCoef)
    IN  IF norm2Old < NUMERICAL_TOLERANCE
        THEN IF change < NUMERICAL_TOLERANCE
             THEN 0            \* barely moved away from the zero vector
             ELSE 2 * eps      \* moved away from the zero vector
        ELSE FDiv(change, norm2Old)

\* the loop condition with the cap off by one
IrwenContinue_OffByOne(iteration, maxIt, relChangeVal, eps) ==
    (iteration <= maxIt) /\ (relChangeVal > eps)

\* the condition of the do-while loop of IRWEN::compute
IrwenContinue(iteration, maxIt, relChangeVal, eps) ==
    (iteration < maxIt) /\ (relChangeVal > eps)

\* Rcpp::warning is raised when the solver's status is positive
IrwenWarns(status) == status > 0

IrwenInit ==
    /\ pcIrwen = "idle"
    /\ \E m \in 0..IrwenMaxIt, e \in IrwenEpsOpts :
          irwen = IRWEN_new(IrwenData, m, e)
    /\ NoCD
    /\ NoEN

\* IRWEN::compute up to the loop: the residuals of the start coefficients
IRWEN_compute ==
    /\ pcIrwen = "idle"
    /\ \E start \in Vectors(irwen.data.numVar, IrwenCoefVals) :
          irwen' = [irwen EXCEPT !.iteration = 0,
                                 !.currentCoef = start,
                                 !.residuals = computeResiduals(irwen.data, start)]
    /\ pcIrwen' = "loop"
    /\ UNCHANGED <<varsCD, varsEN>>

\* one pass of the do-while loop: new weights, one weighted elastic-net
\* solve through the ElasticNet interface, the relative change, the loop test
IRWEN_iterate ==
    /\ pcIrwen = "loop"
    /\ \E w \in Vectors(irwen.data.numObs, IrwenWeightVals),
          out \in Vectors(irwen.data.numVar, IrwenCoefVals),
          status \in {0, 1} :
          LET iteration == irwen.iteration + 1
              oldCoef   == irwen.currentCoef
              rel       == RelChange(oldCoef, out, irwen.eps)
          IN  /\ irwen' = [irwen EXCEPT
                              !.iteration = iteration,
                              !.weights = w,
                              !.oldCoef = oldCoef,
                              !.currentCoef = out,
                              !.residuals = computeResiduals(irwen.data, out),
                              !.enStatus = status,
                              !.enCalls = @ + 1,
                              !.warned = IrwenWarns(status),
                              !.norm2Old = SqNorm(oldCoef),
                              !.relChangeVal = rel]
              /\ pcIrwen' = IF IrwenContinue(iteration, irwen.maxIt, rel, irwen.eps)
                            THEN "loop" ELSE "done"
    /\ UNCHANGED <<varsCD, varsEN>>

NextIRWEN == IRWEN_compute \/ IRWEN_iterate

SpecIRWEN == IrwenInit /\ [][NextIRWEN]_vars

--------------------------------------------------------------------------
(* Soft threshold, used by both solvers                                    *)

\* sign(z) * max(0, |z| - gamma)
softThreshold(z, gamma) ==
    IF Abs(z) <= gamma THEN 0
    ELSE IF z < 0 THEN z + gamma
    ELSE z - gamma

--------------------------------------------------------------------------
(* The S-loss and the elastic-net penalty CDPense works on.  The loss is   *)
(* the external LossEvaluator: residuals -> (loss, scale), with the        *)
(* M-scale estimator's start value as its only state.                      *)

\* regression data: y, and x as one column per predictor
MkPredictorData(y, x) == [n_obs |-> Len(y), n_pred |-> Len(x), y |-> y, x |-> x]

\* an SLoss: data, intercept flag, the M-scale's delta, cc and start value
MkSLoss(data, include_intercept, delta, cc) ==
    [ set |-> TRUE, data |-> data, include_intercept |-> include_intercept,
      delta |-> delta, cc |-> cc, initial |-> 0 ]

\* an unset std::unique_ptr<SLoss>
NullLoss ==
    [ set |-> FALSE, data |-> MkPredictorData(<<>>, <<>>), include_intercept |-> FALSE,
      delta |-> 0, cc |-> 0, initial |-> 0 ]

\* an elastic-net penalty (PenaltyFunction = EnPenalty, not adaptive)
MkPenalty(alpha, lambda) == [ set |-> TRUE, alpha |-> alpha, lambda |-> lambda ]

\* an unset std::unique_ptr<PenaltyFunction>
NullPenalty == [ set |-> FALSE, alpha |-> 0, lambda |-> 0 ]

MkCoefs(intercept, beta) == [intercept |-> intercept, beta |-> beta]

\* SLoss::ZeroCoefficients
ZeroCoefficients(loss) == MkCoefs(0, ZeroVec(loss.data.n_pred))

\* SLoss::Residuals: y - intercept - x * beta
Residuals(loss, coefs) ==
    [i \in 1..loss.data.n_obs |->
        loss.data.y[i]
        - (IF loss.include_intercept THEN coefs.intercept ELSE 0)
        - SumSeq([j \in 1..loss.data.n_pred |-> FMul(loss.data.x[j][i], coefs.beta[j])])]

\* the M-scale of the residuals: the root s of mean(rho(r / s)) = delta
\* for rho(t) = t^2
MScale(loss, residuals) ==
    FSqrt(FDiv(Dot(residuals, residuals), loss.data.n_obs * loss.delta))

\* SLoss::EvaluateResiduals: the scale and the loss 0.5 * scale^2
EvaluateResiduals(loss, residuals) ==
    LET Evaluation(scale) == [loss |-> RDiv(FMul(scale, scale), 2), scale |-> scale]
    IN  Evaluation(MScale(loss, residuals))

\* rho().Derivative(residuals, scale): psi, up to a positive factor
Derivative(residuals, scale) == residuals

--------------------------------------------------------------------------
(* CDPense                                                                 *)

\* nsoptim's kNumericZero, at the model's resolution
kNumericZero == 0

\* nsoptim::OptimumStatus
kOk == "ok"

kWarning == "warning"

\* CDPense::PenaltyContribution, is_adaptive = false
PenaltyContribution(penalty, value, j) ==
    FMul(penalty.lambda,
         FMul(penalty.alpha, Abs(value))
         + FMul(FMul(FMul(Lit(1, 2), Scale - penalty.alpha), value), value))

\* PenaltyFunction::Evaluate: the sum of the coordinates' contributions
PenaltyEvaluate(penalty, coefs) ==
    SumSeq([j \in 1..Len(coefs.beta) |-> PenaltyContribution(penalty, coefs.beta[j], j)])

\* CDPense::UpdateSlope, is_adaptive = false
UpdateSlope(penalty, beta_j, j, stepsize, gradient) ==
    LET dir == FMul(stepsize, beta_j) - gradient
    IN  FDiv(softThreshold(dir, FMul(penalty.lambda, penalty.alpha)),
             stepsize + FMul(penalty.lambda, Scale - penalty.alpha))

\* The quotient in Gradient() and Gradient(j) is a number: its denominator
\* is not zero.  With a zero denominator the gradient is NaN or infinite,
\* and the run is not followed further (position "undefined").
GradientDefined(state) ==
    Dot(Derivative(state.residuals, state.mscale), state.residuals) # 0

\* CDPense::Gradient(): the gradient of the loss in the intercept
GradientIntercept(state) ==
    LET psi == Derivative(state.residuals, state.mscale)
    IN  FDiv(FMul(FMul(-state.mscale, state.mscale), SumSeq(psi)),
             Dot(psi, state.residuals))

\* CDPense::Gradient(j): the gradient of the loss in slope j
GradientSlope(loss, state, j) ==
    LET psi == Derivative(state.residuals, state.mscale)
    IN  FDiv(FMul(FMul(-state.mscale, state.mscale), Dot(psi, loss.data.x[j])),
             Dot(psi, state.residuals))

\* CDPense::ResetState, past its two checks
ResetState(loss, penalty, coefs) ==
    LET State(residuals) ==
            LET Evaluated(loss_eval) ==
                    [ coefs     |-> coefs,
                      residuals |-> residuals,
                      mscale    |-> loss_eval.scale,
                      objf_loss |-> loss_eval.loss,
                      objf_pen  |-> PenaltyEvaluate(penalty, coefs) ]
            IN  Evaluated(EvaluateResiduals(loss, residuals))
    IN  State(Residuals(loss, coefs))

\* CDPense::UpdateLipschitzBounds.  eff_n = n_obs * (1 - delta) is a whole
\* number for the data of this model: separation is 0, log(0) is -inf, and
\* both minima take their caps 80 and 50.
UpdateLipschitzBounds(loss, mscale) ==
    LET data  == loss.data
        eff_n == data.n_obs * (Scale - loss.delta)
        u1    == CASE eff_n % Scale = 0 -> FDiv(80 * Scale, loss.cc)
        u2    == CASE eff_n % Scale = 0 -> FDiv(50 * Scale, loss.cc)
        sq(j) == FMul(SumSeq(data.x[j]), SumSeq(data.x[j]))
    IN  [ lipschitz_bounds_ |->
              [j \in 1..data.n_pred |->
                  FMul(FMul(u1, u1), sq(j)) + FMul(FMul(u2, mscale), Abs(sq(j)))],
          lipschitz_bound_intercept_ |->
              FMul(FMul(FMul(u1, u1) + FMul(u2, mscale), data.n_obs * Scale),
                   data.n_obs * Scale) ]

\* the line search of the intercept gives up on a step (lines 234-235)
InterceptStepRejected(ls_step, loss, objf_loss, tol) ==
    loss > objf_loss + tol \/ (ls_step > 0 /\ loss > objf_loss)

\* a line search whose first attempt is always taken
SlopeStepRejected_FirstAlwaysTaken(ls_step, new_objf, objf, tol) ==
    ls_step > 0 /\ new_objf > objf

\* the line search of a slope gives up on a step (lines 290-291)
SlopeStepRejected(ls_step, new_objf, objf, tol) ==
    new_objf > objf + tol \/ (ls_step > 0 /\ new_objf > objf)

\* the test of both line-search loops, on the value ls_step has before ++
LineSearchGoesOn(ls_step, linesearch_ss_num) == ls_step < linesearch_ss_num

\* The while loop of the intercept's line search (lines 228-250); v is
\* ls_step before the loop test.  s holds the locals and what the loop
\* changes of the state and of the M-scale estimator.
RECURSIVE InterceptSearch(_, _, _, _, _, _, _)
InterceptSearch(loss, config, tol, gradient, intercept, s, v) ==
    LET ls_step == v + 1
        Judge(try_coef, moved, eval_loss) ==
            IF InterceptStepRejected(ls_step, eval_loss.loss, s.objf_loss, tol)
            THEN \* rewind the residuals and the estimator, stop
                 [s EXCEPT !.ls_step = ls_step,
                           !.residuals = VecShift(moved, s.updated_coef - try_coef),
                           !.initial = s.mscale,
                           !.evals = @ + 1]
            ELSE InterceptSearch(loss, config, tol, gradient, intercept,
                     [s EXCEPT !.updated_coef = try_coef,
                               !.residuals = moved,
                               !.objf_loss = eval_loss.loss,
                               !.mscale = eval_loss.scale,
                               !.initial = eval_loss.scale,
                               !.stepsize = FMul(@, config.linesearch_ss_multiplier),
                               !.evals = @ + 1],
                     ls_step)
        Move(try_coef, moved) ==
            Judge(try_coef, moved, EvaluateResiduals(loss, moved))
        Try(try_coef) ==
            Move(try_coef, VecShift(s.residuals, -(s.updated_coef - try_coef)))
    IN  IF ~LineSearchGoesOn(v, config.linesearch_ss_num)
        THEN [s EXCEPT !.ls_step = ls_step]
        ELSE Try(intercept - FDiv(gradient, s.stepsize))

\* The while loop of the line search of slope j (lines 278-306)
RECURSIVE SlopeSearch(_, _, _, _, _, _, _, _, _)
SlopeSearch(loss, penalty, config, tol, gradient, j, beta_j, s, v) ==
    LET ls_step == v + 1
        Judge(try_coef, delta, moved, eval_loss, new_objf_pen) ==
            IF SlopeStepRejected(ls_step, eval_loss.loss + new_objf_pen,
                                 s.objf_loss + s.objf_pen, tol)
            THEN [s EXCEPT !.ls_step = ls_step,
                           !.residuals = VecSub(moved, delta),
                           !.initial = s.mscale,
                           !.evals = @ + 1]
            ELSE SlopeSearch(loss, penalty, config, tol, gradient, j, beta_j,
                     [s EXCEPT !.updated_coef = try_coef,
                               !.residuals = moved,
                               !.objf_loss = eval_loss.loss,
                               !.objf_pen = new_objf_pen,
                               !.mscale = eval_loss.scale,
                               !.initial = eval_loss.scale,
                               !.stepsize = FMul(@, config.linesearch_ss_multiplier),
                               !.evals = @ + 1],
                     ls_step)
        Evaluate(try_coef, delta, moved) ==
            Judge(try_coef, delta, moved, EvaluateResiduals(loss, moved),
                  s.objf_pen_prev + PenaltyContribution(penalty, try_coef, j))
        Move(try_coef, delta) ==
            Evaluate(try_coef, delta, VecAdd(s.residuals, delta))
        Try(try_coef) ==
            IF Abs(try_coef - beta_j) > kNumericZero
            THEN Move(try_coef, VecScale(s.updated_coef - try_coef, loss.data.x[j]))
            ELSE SlopeSearch(loss, penalty, config, tol, gradient, j, beta_j,
                     [s EXCEPT !.stepsize = FMul(@, config.linesearch_ss_multiplier)],
                     ls_step)
    IN  IF ~LineSearchGoesOn(v, config.linesearch_ss_num)
        THEN [s EXCEPT !.ls_step = ls_step]
        ELSE Try(UpdateSlope(penalty, beta_j, j, s.stepsize, gradient))

--------------------------------------------------------------------------
(* CDPense: the object, its operations and the steps of Optimize           *)

\* largest max_it tried
CdMaxIt == 3

\* number of Optimize calls made on one optimizer
CdMaxCalls == 2

CdData == { MkPredictorData(<<2 * Scale, -Scale>>, << <<Scale, -Lit(1, 2)>> >>) }

CdLosses == { MkSLoss(d, i, Lit(1, 2), 80 * Scale) : d \in CdData, i \in BOOLEAN }

CdPenalties == { MkPenalty(a, Lit(1, 2)) : a \in {Lit(1, 2), Scale} }

CdTolerances == {0, Lit(1, 10)}

CdConfigs == { [ max_it |-> m, linesearch_ss_multiplier |-> Lit(1, 2),
                 linesearch_ss_num |-> 1, reset_iter |-> 2 ] : m \in {0, CdMaxIt} }

CdStarts == { MkCoefs(0, <<0>>), MkCoefs(Scale, <<Scale>>) }

\* coorddesc::State before any ResetState
EmptyState ==
    [ coefs |-> MkCoefs(0, <<>>), residuals |-> <<>>, mscale |-> 0,
      objf_loss |-> 0, objf_pen |-> 0 ]

\* CDPense::CDPense, all constructors
CDPense_new(loss, penalty, config, tol) ==
    [ loss_ |-> loss, penalty_ |-> penalty, config_ |-> config,
      lipschitz_bounds_ |-> <<>>, lipschitz_bound_intercept_ |-> 0,
      state_ |-> EmptyState, convergence_tolerance_ |-> tol ]

NoFrame ==
    [ iter |-> 0, max_it |-> 0, objf_before_iter |-> 0, j |-> 0,
      ls_step |-> 0, evals |-> 0, calls |-> 0 ]

\* nothing returned yet
NoReturn == [ kind |-> "none", status |-> "", message |-> "",
              coefs |-> MkCoefs(0, <<>>), residuals |-> <<>> ]

\* nsoptim::MakeOptimum
MakeOptimum(coefs, residuals, status, message) ==
    [ kind |-> "optimum", status |-> status, message |-> message,
      coefs |-> coefs, residuals |-> residuals ]

\* throw std::logic_error(what)
LogicError(what) ==
    [ kind |-> "logic_error", status |-> "", message |-> what,
      coefs |-> MkCoefs(0, <<>>), residuals |-> <<>> ]

\* a ResetState that checks the loss only
ResetStateThrows_LossOnly(o) ==
    IF ~o.loss_.set THEN "no loss set" ELSE ""

\* the checks of ResetState (lines 389-394): what is thrown, "" if nothing
ResetStateThrows(o) ==
    IF ~o.loss_.set THEN "no loss set"
    ELSE IF ~o.penalty_.set THEN "no penalty set"
    ELSE ""

\* the checks of Optimize(max_it) (lines 191-196): what is thrown, "" if nothing
OptimizeThrows(o) ==
    IF ~o.loss_.set THEN "no loss set"
    ELSE IF ~o.penalty_.set THEN "no penalty set"
    ELSE ""

\* the optimizer o after ResetState(coefs): the state, and the M-scale
\* estimator started from the scale just computed
AfterResetState(o, coefs) ==
    LET st == ResetState(o.loss_, o.penalty_, coefs)
    IN  [o EXCEPT !.state_ = st, !.loss_.initial = st.mscale]

\* a cycle loop that makes one cycle more
CycleGoesOn_OffByOne(iter, max_it) == iter <= max_it

\* the test of the cycle loop, on the value iter has before ++ (line 213)
CycleGoesOn(iter, max_it) == iter < max_it

\* the convergence test at the end of a cycle (line 323); both squares are
\* exact, on the scale Scale * Scale
CycleConverged(objf_change, tol) == objf_change * objf_change < tol * tol

\* the first step of a cycle
CycleStart(o) ==
    IF o.loss_.include_intercept THEN "intercept"
    ELSE IF o.loss_.data.n_pred > 0 THEN "coord"
    ELSE "check"

\* leaving the cycle loop (lines 336-340): recomputed residuals, a warning
ReturnNotConverged(o) ==
    LET residuals == Residuals(o.loss_, o.state_.coefs)
    IN  /\ cd' = [o EXCEPT !.state_.residuals = residuals]
        /\ cdRet' = MakeOptimum(o.state_.coefs, residuals, kWarning,
                                "Coordinate descent did not converge.")
        /\ pcCD' = "idle"

\* Optimize(const int max_it) on the optimizer o (lines 190-217), up to the
\* start of the first cycle
OptimizeMaxIt(o, max_it) ==
    LET Cycles(o2) ==
            /\ cdf' = [ iter |-> 1, max_it |-> max_it,
                        objf_before_iter |-> o2.state_.objf_loss + o2.state_.objf_pen,
                        j |-> 1, ls_step |-> 0, evals |-> 0, calls |-> cdf.calls + 1 ]
            /\ IF CycleGoesOn(0, max_it)
               THEN /\ cd' = o2
                    /\ cdRet' = NoReturn
                    /\ pcCD' = CycleStart(o2)
               ELSE ReturnNotConverged(o2)
        Bounded(o1, lb) ==
            [o1 EXCEPT !.lipschitz_bounds_ = lb.lipschitz_bounds_,
                       !.lipschitz_bound_intercept_ = lb.lipschitz_bound_intercept_]
        Bounds(o1) ==
            IF Len(o1.lipschitz_bounds_) = 0
            THEN Bounded(o1, UpdateLipschitzBounds(o1.loss_, o1.state_.mscale))
            ELSE o1
        State ==
            IF Len(o.state_.residuals) = 0
            THEN AfterResetState(o, ZeroCoefficients(o.loss_))
            ELSE o
    IN  IF OptimizeThrows(o) # ""
        THEN /\ cd' = o
             /\ cdRet' = LogicError(OptimizeThrows(o))
             /\ pcCD' = "idle"
             /\ cdf' = [cdf EXCEPT !.calls = @ + 1]
        ELSE Cycles(Bounds(State))

CdIdle == pcCD = "idle" /\ cdf.calls < CdMaxCalls

\* Optimize()
CD_Optimize ==
    /\ CdIdle
    /\ OptimizeMaxIt(cd, cd.config_.max_it)
    /\ UNCHANGED <<varsIrwen, varsEN>>

\* Optimize(const Coefficients& start) and Optimize(start, max_it)
OptimizeFrom(start, max_it) ==
    IF ResetStateThrows(cd) # ""
    THEN /\ cd' = cd
         /\ cdRet' = LogicError(ResetStateThrows(cd))
         /\ pcCD' = "idle"
         /\ cdf' = [cdf EXCEPT !.calls = @ + 1]
    ELSE OptimizeMaxIt(AfterResetState(cd, start), max_it)

CD_OptimizeStart ==
    /\ CdIdle
    /\ \E start \in CdStarts : OptimizeFrom(start, cd.config_.max_it)
    /\ UNCHANGED <<varsIrwen, varsEN>>

CD_OptimizeStartMaxIt ==
    /\ CdIdle
    /\ \E start \in CdStarts, max_it \in {1, CdMaxIt} : OptimizeFrom(start, max_it)
    /\ UNCHANGED <<varsIrwen, varsEN>>

\* Optimize(const int max_it)
CD_OptimizeMaxIt ==
    /\ CdIdle
    /\ \E max_it \in {1, CdMaxIt} : OptimizeMaxIt(cd, max_it)
    /\ UNCHANGED <<varsIrwen, varsEN>>

\* loss(const SLoss&): a copy of the loss, the Lipschitz bounds dropped
CD_loss ==
    /\ CdIdle
    /\ \E l \in CdLosses :
          cd' = [cd EXCEPT !.loss_ = l, !.lipschitz_bounds_ = <<>>]
    /\ UNCHANGED <<cdf, pcCD, cdRet>>
    /\ UNCHANGED <<varsIrwen, varsEN>>

\* penalty(const PenaltyFunction&)
CD_penalty ==
    /\ CdIdle
    /\ \E q \in CdPenalties : cd' = [cd EXCEPT !.penalty_ = q]
    /\ UNCHANGED <<cdf, pcCD, cdRet>>
    /\ UNCHANGED <<varsIrwen, varsEN>>

\* Reset()
CD_Reset ==
    /\ CdIdle
    /\ cd' = [cd EXCEPT !.loss_ = NullLoss, !.penalty_ = NullPenalty,
                        !.state_.residuals = <<>>]
    /\ UNCHANGED <<cdf, pcCD, cdRet>>
    /\ UNCHANGED <<varsIrwen, varsEN>>

\* the intercept's update of one cycle (lines 219-263)
CD_Intercept ==
    /\ pcCD = "intercept"
    /\ IF ~GradientDefined(cd.state_)
       THEN /\ pcCD' = "undefined"
            /\ UNCHANGED <<cd, cdf>>
       ELSE
         LET st == cd.state_
             s0 == [ residuals |-> st.residuals, objf_loss |-> st.objf_loss,
                     mscale |-> st.mscale, initial |-> cd.loss_.initial,
                     updated_coef |-> st.coefs.intercept,
                     stepsize |-> cd.lipschitz_bound_intercept_,
                     ls_step |-> -1, evals |-> 0 ]
             Searched(s) ==
                 /\ cd' = [cd EXCEPT
                              !.state_.residuals = s.residuals,
                              !.state_.objf_loss = s.objf_loss,
                              !.state_.mscale = s.mscale,
                              !.loss_.initial = s.initial,
                              !.state_.coefs.intercept =
                                  IF s.ls_step > 0 THEN s.updated_coef ELSE @]
                 /\ cdf' = [cdf EXCEPT !.ls_step = s.ls_step, !.evals = s.evals,
                                       !.j = 1]
         IN  /\ Searched(InterceptSearch(cd.loss_, cd.config_,
                                         cd.convergence_tolerance_,
                                         GradientIntercept(st),
                                         st.coefs.intercept, s0, -1))
             /\ pcCD' = IF cd.loss_.data.n_pred > 0 THEN "coord" ELSE "check"
    /\ UNCHANGED cdRet
    /\ UNCHANGED <<varsIrwen, varsEN>>

\* the update of slope j of one cycle (lines 265-318)
CD_Coordinate ==
    /\ pcCD = "coord"
    /\ IF ~GradientDefined(cd.state_)
       THEN /\ pcCD' = "undefined"
            /\ UNCHANGED <<cd, cdf>>
       ELSE
         LET st     == cd.state_
             j      == cdf.j
             beta_j == st.coefs.beta[j]
             s0 == [ residuals |-> st.residuals, objf_loss |-> st.objf_loss,
                     objf_pen |-> st.objf_pen,
                     objf_pen_prev |-> st.objf_pen
                                       - PenaltyContribution(cd.penalty_, beta_j, j),
                     mscale |-> st.mscale, initial |-> cd.loss_.initial,
                     updated_coef |-> beta_j,
                     stepsize |-> cd.lipschitz_bounds_[j],
                     ls_step |-> -1, evals |-> 0 ]
             Searched(s) ==
                 /\ cd' = [cd EXCEPT
                              !.state_.residuals = s.residuals,
                              !.state_.objf_loss = s.objf_loss,
                              !.state_.objf_pen = s.objf_pen,
                              !.state_.mscale = s.mscale,
                              !.loss_.initial = s.initial,
                              !.state_.coefs.beta[j] =
                                  IF /\ s.ls_step > 0
                                     /\ Abs(s.updated_coef - beta_j) > kNumericZero
                                  THEN s.updated_coef ELSE @]
                 /\ cdf' = [cdf EXCEPT !.ls_step = s.ls_step, !.evals = s.evals,
                                       !.j = j + 1]
         IN  /\ Searched(SlopeSearch(cd.loss_, cd.penalty_, cd.config_,
                                     cd.convergence_tolerance_,
                                     GradientSlope(cd.loss_, st, j),
                                     j, beta_j, s0, -1))
             /\ pcCD' = IF j < cd.loss_.data.n_pred THEN "coord" ELSE "check"
    /\ UNCHANGED cdRet
    /\ UNCHANGED <<varsIrwen, varsEN>>

\* the end of a cycle (lines 320-334) and the loop test before the next
CD_CycleEnd ==
    /\ pcCD = "check"
    /\ LET st          == cd.state_
           objf_change == (st.objf_loss + st.objf_pen) - cdf.objf_before_iter
       IN  IF CycleConverged(objf_change, cd.convergence_tolerance_)
           THEN /\ cdRet' = MakeOptimum(st.coefs, st.residuals, kOk, "")
                /\ pcCD' = "idle"
                /\ UNCHANGED <<cd, cdf>>
           ELSE
             LET o == IF cdf.iter > 0 /\ cdf.iter % cd.config_.reset_iter = 0
                      THEN [cd EXCEPT !.state_.residuals = Residuals(cd.loss_, st.coefs)]
                      ELSE cd
             IN  /\ cdf' = [cdf EXCEPT
                               !.iter = @ + 1,
                               !.j = 1,
                               !.objf_before_iter =
                                   IF CycleGoesOn(cdf.iter, cdf.max_it)
                                   THEN st.objf_loss + st.objf_pen ELSE @]
                 /\ IF CycleGoesOn(cdf.iter, cdf.max_it)
                    THEN /\ cd' = o
                         /\ pcCD' = CycleStart(o)
                         /\ UNCHANGED cdRet
                    ELSE ReturnNotConverged(o)
    /\ UNCHANGED <<varsIrwen, varsEN>>

CdInit ==
    /\ pcCD = "idle"
    /\ cdf = NoFrame
    /\ cdRet = NoReturn
    /\ \E config \in CdConfigs, tol \in CdTolerances :
          \/ cd = CDPense_new(NullLoss, NullPenalty, config, tol)
          \/ \E l \in CdLosses, q \in CdPenalties : cd = CDPense_new(l, q, config, tol)
    /\ NoIrwen
    /\ NoEN

NextCD ==
    \/ CD_Optimize
    \/ CD_OptimizeStart
    \/ CD_OptimizeStartMaxIt
    \/ CD_OptimizeMaxIt
    \/ CD_loss
    \/ CD_penalty
    \/ CD_Reset
    \/ CD_Intercept
    \/ CD_Coordinate
    \/ CD_CycleEnd

SpecCD == CdInit /\ [][NextCD]_vars

--------------------------------------------------------------------------
(* ENDal: the elastic net by the dual augmented Lagrangian.  Xtr holds one *)
(* row per predictor (the intercept's row is shed by setData) and one      *)
(* column per observation; a matrix is a sequence of rows.                 *)

\* static const double LINESEARCH_STEPSIZE_MULTIPLIER = 0.8
LINESEARCH_STEPSIZE_MULTIPLIER == Lit(8, 10)

\* static const double LINESEARCH_STEP_CONDITION = 0.3
LINESEARCH_STEP_CONDITION == Lit(3, 10)

\* static const int LINESEARCH_MAX_STEP = 20
LINESEARCH_MAX_STEP == 20

\* arma::mean
Mean(x) == RDiv(SumSeq(x), Len(x))

\* x % y, the element-wise product
Schur(x, y) == [i \in 1..Len(x) |-> FMul(x[i], y[i])]

\* Xtr * v, for a vector v over the observations
MatVec(Xtr, v) == [j \in 1..Len(Xtr) |-> Dot(Xtr[j], v)]

\* Xtr->t() * beta, a vector over the n observations
TransMatVec(Xtr, n, beta) ==
    [i \in 1..n |-> SumSeq([j \in 1..Len(Xtr) |-> FMul(Xtr[j][i], beta[j])])]

\* squaredL2Norm: tmp = norm(x, 2); tmp * tmp
squaredL2Norm(x) ==
    LET Square(tmp) == FMul(tmp, tmp)
    IN  Square(FSqrt(Dot(x, x)))

\* lossDual
lossDual(a, y, aNeg) ==
    IF aNeg THEN FMul(Lit(1, 2), Dot(a, a)) - Dot(a, y)
    ELSE FMul(Lit(1, 2), Dot(a, a)) + Dot(a, y)

\* vecSoftThreshold
vecSoftThreshold(z, gamma) == [i \in 1..Len(z) |-> softThreshold(z[i], gamma)]

\* vecSoftThresholdInplace: softThreshold(z1 + c * z2, gamma)
vecSoftThresholdInplace(z1, c, z2, gamma) ==
    [i \in 1..Len(z1) |-> softThreshold(z1[i] + FMul(c, z2[i]), gamma)]

\* find(beta): the indices of the non-zero elements, ascending
Find(beta) == SelectSeq([j \in 1..Len(beta) |-> j], LAMBDA j : beta[j] # 0)

\* Xtr->rows(keep).t() * Xtr->rows(keep), an n x n matrix
RowsCrossProd(Xtr, keep, n) ==
    [i \in 1..n |-> [k \in 1..n |->
        SumSeq([t \in 1..Len(keep) |-> FMul(Xtr[keep[t]][i], Xtr[keep[t]][k])])]]

\* solve(A, b) for the n x n systems of the model, n <= 2 (Cramer's rule)
Solve(A, b) ==
    CASE Len(b) = 1 -> <<FDiv(b[1], A[1][1])>>
      [] Len(b) = 2 ->
            LET Quotients(det) ==
                    << FDiv(FMul(A[2][2], b[1]) - FMul(A[1][2], b[2]), det),
                       FDiv(FMul(A[1][1], b[2]) - FMul(A[2][1], b[1]), det) >>
            IN  Quotients(FMul(A[1][1], A[2][2]) - FMul(A[1][2], A[2][1]))

\* ENDal::ENDal(intercept, options), with the status of a new ElasticNet
ENDal_new(intercept, options) ==
    [ intercept |-> intercept,
      maxIt |-> options.maxit, eps |-> options.eps,
      warmStart |-> options.warmStart, etaStart |-> options.etaStart,
      etaStartNumerator |-> options.etaStartNumerator,
      etaMultiplier |-> options.etaMultiplier,
      useHessBuffer |-> options.useBuffer,
      bufferSizeNobs |-> 0, bufferSizeNvar |-> 0,
      y |-> <<>>, Xtr |-> <<>>,
      useWeights |-> FALSE, sqrtWeights |-> <<Scale>>, sqrtWeightsOuter |-> <<>>,
      alpha |-> 0, lambda |-> 0, nLambda |-> 0,
      a |-> <<>>, eta |-> <<0, 0>>,
      status |-> 0, statusMessage |-> "",
      hessBuffKeep |-> <<>>, hessBuff |-> <<>> ]

\* ENDal::setAlphaLambda
setAlphaLambda(o, alpha, lambda) == [o EXCEPT !.alpha = alpha, !.lambda = lambda]

\* ENDal::setData, for data with at least the intercept's row
setData(o, data) ==
    LET y == data.y
        resized == data.numObs # o.bufferSizeNobs
    IN  [o EXCEPT
            !.bufferSizeNvar = data.numVar,
            !.y = y,
            !.Xtr = Tail(data.Xtr),
            !.a = IF resized THEN [i \in 1..data.numObs |-> -y[i]] ELSE @,
            !.bufferSizeNobs = data.numObs,
            !.hessBuffKeep = IF o.useHessBuffer THEN <<>> ELSE @,
            !.hessBuff = IF o.useHessBuffer
                         THEN [i \in 1..data.numObs |-> ZeroVec(data.numObs)]
                         ELSE @ ]

\* ENDal::fullObjectiveFun
fullObjectiveFun(o, intercept, beta) ==
    LET fit == TransMatVec(o.Xtr, Len(o.y), beta)
        penalty ==
            FMul(o.nLambda,
                 FMul(FMul(Lit(1, 2), Scale - o.alpha), squaredL2Norm(beta))
                 + FMul(o.alpha, SumSeq([j \in 1..Len(beta) |-> Abs(beta[j])])))
        residuals ==
            IF o.intercept
            THEN IF o.useWeights
                 THEN VecSub(VecAdd(fit, VecScale(intercept, o.sqrtWeights)), o.y)
                 ELSE VecSub(VecShift(fit, -intercept), o.y)
            ELSE VecSub(fit, o.y)
    IN  penalty + FMul(Lit(1, 2), squaredL2Norm(residuals))

getHessBuff_SizeOnly(o, keep) ==
    IF Len(keep) # Len(o.hessBuffKeep)
    THEN LET Cached(m) == [hess |-> m, hessBuff |-> m, hessBuffKeep |-> keep]
         IN  Cached(RowsCrossProd(o.Xtr, keep, Len(o.y)))
    ELSE [hess |-> o.hessBuff, hessBuff |-> o.hessBuff, hessBuffKeep |-> o.hessBuffKeep]

\* ENDal::getHessBuff: the matrix returned and the cache it leaves
getHessBuff(o, keep) ==
    IF \/ Len(keep) # Len(o.hessBuffKeep)
       \/ \E t \in 1..Len(keep) : keep[t] - o.hessBuffKeep[t] # 0
    THEN LET Cached(m) == [hess |-> m, hessBuff |-> m, hessBuffKeep |-> keep]
         IN  Cached(RowsCrossProd(o.Xtr, keep, Len(o.y)))
    ELSE [hess |-> o.hessBuff, hessBuff |-> o.hessBuff, hessBuffKeep |-> o.hessBuffKeep]

\* ENDal::evalPhiGrad
evalPhiGrad(o, a, beta, intercept, multFact) ==
    LET grad == VecAdd(VecSub(a, o.y),
                       VecScale(multFact, TransMatVec(o.Xtr, Len(o.y), beta)))
    IN  IF o.intercept /\ ~o.useWeights THEN VecShift(grad, -intercept)
        ELSE IF o.intercept /\ o.useWeights
             THEN VecAdd(grad, VecScale(intercept, o.sqrtWeights))
        ELSE grad

\* ENDal::evalPhiHess: the Hessian and the cache getHessBuff leaves
evalPhiHess(o, beta, multFact) ==
    LET n == Len(o.y)
        factor == FMul(o.eta[1], multFact)
        Hessian(got) ==
            [ hessBuff |-> got.hessBuff, hessBuffKeep |-> got.hessBuffKeep,
              hess |->
                [i \in 1..n |-> [k \in 1..n |->
                    FMul(factor, got.hess[i][k])
                    + (IF i = k THEN Scale ELSE 0)
                    + (IF o.intercept /\ ~o.useWeights THEN o.eta[2]
                       ELSE IF o.intercept /\ o.useWeights
                            THEN FMul(o.eta[2], o.sqrtWeightsOuter[i][k])
                       ELSE 0)]] ]
    IN  IF o.useHessBuffer
        THEN Hessian(getHessBuff(o, Find(beta)))
        ELSE Hessian([hess |-> RowsCrossProd(o.Xtr, Find(beta), n),
                      hessBuff |-> o.hessBuff, hessBuffKeep |-> o.hessBuffKeep])

(* ENDal::dal and ENDal::minimizePhi as operators on the object `o`, the   *)
(* caller's coefficients, and the frames of the two functions.             *)

DalEta_Kept(o, nLambda) ==
    IF o.eta[1] > 0 THEN o.eta
    ELSE IF o.etaStart > 0 THEN <<o.etaStart, o.etaStart>>
    ELSE <<FDiv(o.etaStartNumerator, nLambda), FDiv(o.etaStartNumerator, nLambda)>>

\* ENDal::dal: eta[0] and eta[1] at the start of a solve, capped at 1e6
DalEta(o, nLambda) ==
    LET Both(eta0) == <<eta0, eta0>>
    IN  IF o.etaStart > 0 THEN Both(o.etaStart)
        ELSE Both(Min(FDiv(o.etaStartNumerator, nLambda), 1000000 * Scale))

\* ENDal::dal: the intercept taken out of a starting dual vector
DalCentre(o, a0) ==
    IF o.intercept
    THEN IF o.useWeights
         THEN LET Shifted(c) ==
                      [intercept |-> c, a |-> VecSub(a0, VecScale(c, o.sqrtWeights))]
              IN  Shifted(Mean(Schur(o.sqrtWeights, a0)))
         ELSE LET Shifted(c) == [intercept |-> c, a |-> VecShift(a0, c)]
              IN  Shifted(Mean(a0))
    ELSE [intercept |-> 0, a |-> a0]

\* ENDal::dal: the warm or the cold start of intercept, beta and a
DalStart(o, beta) ==
    IF o.warmStart
    THEN LET Warm(s) == [intercept |-> s.intercept, a |-> s.a, beta |-> beta]
         IN  Warm(DalCentre(o, VecSub(o.y, TransMatVec(o.Xtr, Len(o.y), beta))))
    ELSE LET Cold(s) ==
                 [intercept |-> s.intercept, a |-> s.a, beta |-> ZeroVec(Len(beta))]
         IN  Cold(DalCentre(o, o.y))

\* ENDal::dal up to the loop: the object and the coefficients it starts from
DalEnter(o, beta) ==
    LET Entered(nLambda, s) ==
            [ o |-> [o EXCEPT !.nLambda = nLambda, !.eta = DalEta(o, nLambda),
                              !.a = s.a],
              intercept |-> s.intercept, beta |-> s.beta ]
    IN  Entered(Len(o.y) * o.lambda, DalStart(o, beta))

\* the locals of ENDal::dal when its loop starts; checks and phiCalls count
\* the gap checks made and the calls of minimizePhi
DalFrame ==
    [ iter |-> 0, dualFunVal |-> 0, dualFunValPrev |-> 0, dualFunValRaw |-> 0,
      primalFunVal |-> 0, aL1 |-> 0, aL1Prev |-> 0, below |-> FALSE,
      checks |-> 0, phiCalls |-> 0 ]

\* ENDal::dal: the centred dual vector
DualVec(o) ==
    IF o.intercept
    THEN IF o.useWeights
         THEN VecSub(o.a, VecScale(Mean(Schur(o.sqrtWeights, o.a)), o.sqrtWeights))
         ELSE VecShift(o.a, Mean(o.a))
    ELSE o.a

\* fmin(nLambda / max(abs(tmpInnerProd)), 1); a zero maximum gives 1
DualRescale(nLambda, tmpInnerProd) ==
    LET Factor(m) == IF m = 0 THEN Scale ELSE Min(FDiv(nLambda, m), Scale)
    IN  Factor(CHOOSE m \in {Abs(tmpInnerProd[j]) : j \in 1..Len(tmpInnerProd)} :
                   \A j \in 1..Len(tmpInnerProd) : Abs(tmpInnerProd[j]) <= m)

\* ENDal::dal: the dual objective as computed, before the guard
DualValue(o, dualVec) ==
    IF o.alpha < Scale
    THEN lossDual(dualVec, o.y, TRUE)
         + FMul(FMul(Lit(1, 2),
                     squaredL2Norm(vecSoftThreshold(MatVec(o.Xtr, dualVec),
                                                    FMul(o.nLambda, o.alpha)))),
                FDiv(Scale, FMul(o.nLambda, Scale - o.alpha)))
    ELSE lossDual(VecScale(DualRescale(o.nLambda, MatVec(o.Xtr, dualVec)), dualVec),
                  o.y, TRUE)

DualClamp_Unguarded(iter, dualFunVal, dualFunValPrev) == dualFunVal

\* if (iter > 0 && dualFunVal > dualFunValPrev) dualFunVal = dualFunValPrev
DualClamp(iter, dualFunVal, dualFunValPrev) ==
    IF iter > 0 /\ dualFunVal > dualFunValPrev THEN dualFunValPrev ELSE dualFunVal

\* relativeDualityGap < eps; a zero primal value divides to an infinity or
\* to a NaN, below eps only when it is the negative infinity
GapBelowEps(primalFunVal, dualFunVal, eps) ==
    IF primalFunVal = 0 THEN dualFunVal < 0
    ELSE FDiv(primalFunVal + dualFunVal, primalFunVal) < eps

\* ENDal::dal: one pass through the head of the loop, up to the gap test
DalCheck(o, intercept, beta, f) ==
    LET Judged(raw, primal) ==
            LET Guarded(dual) ==
                    [f EXCEPT !.dualFunValPrev = f.dualFunVal,
                              !.dualFunValRaw = raw,
                              !.dualFunVal = dual,
                              !.primalFunVal = primal,
                              !.below = GapBelowEps(primal, dual, o.eps),
                              !.checks = @ + 1]
            IN  Guarded(DualClamp(f.iter, raw, f.dualFunVal))
    IN  Judged(DualValue(o, DualVec(o)), fullObjectiveFun(o, intercept, beta))

DalNotConverged_AtCap(iter, maxIt) == iter >= maxIt

\* ++iter > maxIt, and iter > maxIt after the loop
DalNotConverged(iter, maxIt) == iter > maxIt

\* ENDal::dal: eta after a call of minimizePhi
DalUpdateEta(o, iter, aL1, aL1Prev) ==
    << FMul(o.eta[1], o.etaMultiplier),
       IF o.intercept
       THEN IF iter > 1 /\ aL1 > o.eps /\ aL1 > FMul(Lit(1, 2), aL1Prev)
            THEN FMul(o.eta[2], 10 * o.etaMultiplier)
            ELSE FMul(o.eta[2], o.etaMultiplier)
       ELSE o.eta[2] >>

\* accu(sqrtWeights % a) or accu(a)
DualMass(o, a) == IF o.useWeights THEN SumSeq(Schur(o.sqrtWeights, a)) ELSE SumSeq(a)

\* the locals of ENDal::minimizePhi when its loop starts; newtons and lsEvals
\* count the Newton steps taken and the line-search evaluations of the step
PhiFrame(o, beta, intercept) ==
    [ cutoff |-> FMul(FMul(o.nLambda, o.eta[1]), o.alpha),
      multFact |-> FDiv(Scale, Scale + FMul(FMul(o.nLambda, o.eta[1]), Scale - o.alpha)),
      betaOrig |-> beta, interceptOrig |-> intercept,
      iter |-> 0, lineSearchIter |-> 0,
      stepSize |-> Scale, stepSizePrev |-> Scale,
      phiVal |-> 0, decr |-> 0,
      candA |-> o.a, Xtra |-> MatVec(o.Xtr, o.a),
      stepDir |-> ZeroVec(Len(o.a)), XtrStepDir |-> ZeroVec(Len(beta)),
      phiGradient |-> ZeroVec(Len(o.a)),
      newtons |-> 0, lsEvals |-> 0 ]

\* ENDal::minimizePhi: beta, intercept and the value of phi at candA
PhiEval(o, f, intercept) ==
    LET At(beta) ==
            LET Smooth(val) ==
                    IF o.intercept
                    THEN LET With(c) ==
                                 [ beta |-> beta, intercept |-> c,
                                   phiVal |-> val + FMul(FMul(FDiv(Lit(1, 2), o.eta[2]), c), c) ]
                         IN  With(f.interceptOrig + FMul(o.eta[2], DualMass(o, f.candA)))
                    ELSE [beta |-> beta, intercept |-> intercept, phiVal |-> val]
            IN  Smooth(lossDual(f.candA, o.y, TRUE)
                       + FMul(FMul(FDiv(Lit(1, 2), o.eta[1]), f.multFact),
                              squaredL2Norm(beta)))
    IN  At(vecSoftThresholdInplace(f.betaOrig, o.eta[1], f.Xtra, f.cutoff))

\* ENDal::minimizePhi: the squared movement of the coefficients, over eta
PhiMovement(o, f, beta, intercept) ==
    FMul(FDiv(Scale, o.eta[1]), squaredL2Norm(VecSub(f.betaOrig, beta)))
    + (IF o.intercept
       THEN FMul(FMul(FDiv(Scale, o.eta[2]), f.interceptOrig - intercept),
                 f.interceptOrig - intercept)
       ELSE 0)

\* ENDal::minimizePhi: the threshold the squared gradient norm is held to
PhiThreshold(o, f, beta, intercept) ==
    LET Floored(threshold) ==
            IF threshold < o.eps THEN FMul(Lit(1, 2), o.eps) ELSE threshold
    IN  Floored(PhiMovement(o, f, beta, intercept))

\* (iter > 1) && (normGradient < threshold)
PhiConverged(iter, normGradient, threshold) == iter > 1 /\ normGradient < threshold

\* ++iter > maxIt in minimizePhi
PhiCapped(iter, maxIt) == iter > maxIt

LineSearchContinues_OneMore(lineSearchIter) == lineSearchIter <= LINESEARCH_MAX_STEP + 1

\* ++lineSearchIter <= LINESEARCH_MAX_STEP
LineSearchContinues(lineSearchIter) == lineSearchIter <= LINESEARCH_MAX_STEP

\* phiValStep < phiVal - LINESEARCH_STEP_CONDITION * stepSize * decr
LineSearchAccepts(phiValStep, phiVal, stepSize, decr) ==
    phiValStep < phiVal - FMul(FMul(LINESEARCH_STEP_CONDITION, stepSize), decr)

(* The ENDal object, its callers' buffers and the solves in progress.      *)

\* the largest maxit among the options
DalMaxIt == 2

\* the number of solves followed on one object
DalMaxCalls == 2

\* Data: numVar counts the intercept's row of ones, the first row of Xtr
MkEnData(y, rows) ==
    [numObs |-> Len(y), numVar |-> Len(rows), y |-> y, Xtr |-> rows]

EnData ==
    { MkEnData(<<>>, << <<>> >>),
      MkEnData(<<Scale, 3 * Scale>>, << <<Scale, Scale>> >>),
      MkEnData(<<2 * Scale, -Scale>>, << <<Scale, Scale>>, <<Scale, -Lit(1, 2)>> >>) }

\* the options a solver is made with
EnOptions ==
    [ maxit : 0..DalMaxIt, eps : {0, Lit(1, 10)}, warmStart : BOOLEAN,
      etaStart : {-Scale, Scale}, etaStartNumerator : {Scale},
      etaMultiplier : {2 * Scale}, useBuffer : BOOLEAN ]

\* the weights of a weighted solve over n observations
EnWeights(n) ==
    IF n = 0 THEN {<<>>} ELSE {<<Scale, Scale>>, <<Scale, 4 * Scale>>}

\* the caller's coefs and resids buffers before the first solve
EnBuffers(data) ==
    { [ fn |-> "none", intercept |-> c, beta |-> [j \in 1..(data.numVar - 1) |-> c],
        resids |-> ZeroVec(data.numObs), weights |-> <<>>,
        origY |-> data.y, origXtr |-> Tail(data.Xtr),
        calls |-> 0, fast |-> FALSE, dalCalls |-> 0, statusWritten |-> FALSE ]
      : c \in {-Scale, 0, Scale} }

\* residuals = origY - intercept - origXtr.t() * beta after dal
DalResiduals(o, origY, origXtr, intercept, beta) ==
    IF o.intercept
    THEN VecSub(VecShift(origY, intercept), TransMatVec(origXtr, Len(origY), beta))
    ELSE VecSub(origY, TransMatVec(origXtr, Len(origY), beta))

\* the fast path of computeCoefs and computeCoefsWeighted
FastPath(c, fn, weights, y, intercept) ==
    [c EXCEPT !.fn = fn, !.weights = weights, !.calls = @ + 1, !.fast = TRUE,
              !.dalCalls = 0, !.statusWritten = FALSE,
              !.intercept = intercept,
              !.beta = ZeroVec(Len(c.beta)),
              !.resids = VecShift(y, intercept)]

\* a call that goes on to dal: the buffers when dal's loop starts
SlowPath(c, fn, weights, origY, origXtr, s) ==
    [c EXCEPT !.fn = fn, !.weights = weights, !.calls = @ + 1, !.fast = FALSE,
              !.dalCalls = 1, !.statusWritten = FALSE,
              !.origY = origY, !.origXtr = origXtr,
              !.intercept = s.intercept, !.beta = s.beta]

\* ENDal::computeCoefs, up to the loop of dal
EN_computeCoefs ==
    /\ pcEN = "idle"
    /\ enc.calls < DalMaxCalls
    /\ IF en.bufferSizeNvar = 1 \/ en.bufferSizeNobs = 0
       THEN /\ enc' = FastPath(enc, "computeCoefs", <<>>, en.y,
                               IF en.bufferSizeNobs > 0 THEN Mean(en.y) ELSE 0)
            /\ UNCHANGED <<en, dalf, phif, pcEN>>
       ELSE LET Called(s) ==
                    /\ en' = s.o
                    /\ enc' = SlowPath(enc, "computeCoefs", <<>>, en.y, en.Xtr, s)
            IN  /\ Called(DalEnter([en EXCEPT !.useWeights = FALSE], enc.beta))
                /\ dalf' = DalFrame
                /\ pcEN' = "dal"
                /\ UNCHANGED phif
    /\ UNCHANGED <<varsIrwen, varsCD>>

\* ENDal::computeCoefsWeighted: the object once the weights are stored
Weighted(o, sqrtWeights) ==
    [o EXCEPT !.sqrtWeights = sqrtWeights,
              !.sqrtWeightsOuter =
                  [i \in 1..Len(sqrtWeights) |-> [k \in 1..Len(sqrtWeights) |->
                      FMul(sqrtWeights[i], sqrtWeights[k])]],
              !.useWeights = TRUE]

\* weightedY and weightedXtr put in the place of y and Xtr
WeightedData(o) ==
    [o EXCEPT !.y = Schur(o.y, o.sqrtWeights),
              !.Xtr = [j \in 1..Len(o.Xtr) |-> Schur(o.Xtr[j], o.sqrtWeights)]]

\* ENDal::computeCoefsWeighted, up to the loop of dal
EN_computeCoefsWeighted ==
    /\ pcEN = "idle"
    /\ enc.calls < DalMaxCalls
    /\ \E weights \in EnWeights(en.bufferSizeNobs) :
         LET Stored(o) ==
               IF o.bufferSizeNvar = 1 \/ o.bufferSizeNobs = 0
               THEN /\ en' = o
                    /\ enc' = FastPath(enc, "computeCoefsWeighted", weights, o.y,
                                       IF o.bufferSizeNobs > 0
                                       THEN Mean(Schur(o.sqrtWeights, o.y)) ELSE 0)
                    /\ UNCHANGED <<dalf, phif, pcEN>>
               ELSE LET Called(s) ==
                            /\ en' = s.o
                            /\ enc' = SlowPath(enc, "computeCoefsWeighted", weights,
                                               en.y, en.Xtr, s)
                    IN  /\ Called(DalEnter(WeightedData(o), enc.beta))
                        /\ dalf' = DalFrame
                        /\ pcEN' = "dal"
                        /\ UNCHANGED phif
         IN  Stored(Weighted(en, [i \in 1..Len(weights) |-> FSqrt(weights[i])]))
    /\ UNCHANGED <<varsIrwen, varsCD>>

\* the end of dal and of the function that called it: the status, the
\* residuals, and y, Xtr and useWeights put back
DalReturn(f) ==
    /\ dalf' = f
    /\ en' = [en EXCEPT
                !.status = IF DalNotConverged(f.iter, en.maxIt) THEN 1 ELSE @,
                !.statusMessage = IF DalNotConverged(f.iter, en.maxIt)
                                  THEN "algorithm did not converge" ELSE @,
                !.y = enc.origY, !.Xtr = enc.origXtr, !.useWeights = FALSE]
    /\ enc' = [enc EXCEPT
                !.statusWritten = DalNotConverged(f.iter, en.maxIt),
                !.resids = DalResiduals(en, enc.origY, enc.origXtr,
                                        enc.intercept, enc.beta)]
    /\ pcEN' = "idle"
    /\ UNCHANGED phif

\* dal: the gap is below eps, the loop is left
EN_DalConverged ==
    /\ pcEN = "dal"
    /\ LET Checked(f) == f.below /\ DalReturn(f)
       IN  Checked(DalCheck(en, enc.intercept, enc.beta, dalf))
    /\ UNCHANGED <<varsIrwen, varsCD>>

\* dal: the gap is not below eps and the iterations are used up
EN_DalCapped ==
    /\ pcEN = "dal"
    /\ LET Checked(f) ==
               /\ ~f.below
               /\ DalNotConverged(f.iter + 1, en.maxIt)
               /\ DalReturn([f EXCEPT !.iter = @ + 1])
       IN  Checked(DalCheck(en, enc.intercept, enc.beta, dalf))
    /\ UNCHANGED <<varsIrwen, varsCD>>

\* dal: the gap is not below eps, minimizePhi is called
EN_DalMinimize ==
    /\ pcEN = "dal"
    /\ LET Checked(f) ==
               /\ ~f.below
               /\ ~DalNotConverged(f.iter + 1, en.maxIt)
               /\ dalf' = [f EXCEPT !.iter = @ + 1, !.phiCalls = @ + 1]
       IN  Checked(DalCheck(en, enc.intercept, enc.beta, dalf))
    /\ phif' = PhiFrame(en, enc.beta, enc.intercept)
    /\ pcEN' = "phi"
    /\ UNCHANGED <<en, enc>>
    /\ UNCHANGED <<varsIrwen, varsCD>>

\* the end of minimizePhi and the rest of dal's loop body: a = candA,
\* beta *= multFact, then eta and aL1
PhiReturn(e, iter) ==
    LET Left(o) ==
            LET Weighed(aL1) ==
                    /\ en' = [o EXCEPT !.eta = DalUpdateEta(o, dalf.iter, aL1, dalf.aL1Prev)]
                    /\ dalf' = IF o.intercept
                               THEN [dalf EXCEPT !.aL1 = aL1, !.aL1Prev = aL1]
                               ELSE dalf
            IN  Weighed(IF o.intercept THEN DualMass(o, o.a) ELSE dalf.aL1)
    IN  /\ Left([en EXCEPT !.a = phif.candA])
        /\ enc' = [enc EXCEPT !.intercept = e.intercept,
                              !.beta = VecScale(phif.multFact, e.beta)]
        /\ phif' = [phif EXCEPT !.iter = iter, !.phiVal = e.phiVal]
        /\ pcEN' = "dal"

\* minimizePhi: the head of the loop finds the iterations used up
EN_PhiCapped ==
    /\ pcEN = "phi"
    /\ PhiCapped(phif.iter + 1, en.maxIt)
    /\ PhiReturn(PhiEval(en, phif, enc.intercept), phif.iter + 1)
    /\ UNCHANGED <<varsIrwen, varsCD>>

\* the squared norm of the gradient is below the threshold
PhiGradientSmall(o, f, e, iter) ==
    PhiConverged(iter,
                 squaredL2Norm(evalPhiGrad(o, f.candA, e.beta, e.intercept, f.multFact)),
                 PhiThreshold(o, f, e.beta, e.intercept))

\* minimizePhi: the head of the loop finds the gradient small enough
EN_PhiConverged ==
    /\ pcEN = "phi"
    /\ ~PhiCapped(phif.iter + 1, en.maxIt)
    /\ LET Evaluated(e) ==
               /\ PhiGradientSmall(en, phif, e, phif.iter + 1)
               /\ PhiReturn(e, phif.iter + 1)
       IN  Evaluated(PhiEval(en, phif, enc.intercept))
    /\ UNCHANGED <<varsIrwen, varsCD>>

\* minimizePhi: the Newton direction and the first candidate of the search
PhiStep(f, e, grad, h) ==
    LET Directed(stepDir) ==
            LET Moved(XtrStepDir) ==
                    [f EXCEPT !.iter = @ + 1, !.newtons = @ + 1,
                              !.phiVal = e.phiVal,
                              !.phiGradient = grad,
                              !.stepDir = stepDir,
                              !.decr = Dot(stepDir, grad),
                              !.XtrStepDir = XtrStepDir,
                              !.lineSearchIter = 0, !.lsEvals = 0,
                              !.stepSize = Scale, !.stepSizePrev = Scale,
                              !.candA = VecSub(f.candA, stepDir),
                              !.Xtra = VecSub(f.Xtra, XtrStepDir)]
            IN  Moved(MatVec(en.Xtr, stepDir))
    IN  Directed(Solve(h.hess, grad))

\* minimizePhi: the gradient is not small enough, a Newton step is taken
EN_PhiNewton ==
    /\ pcEN = "phi"
    /\ ~PhiCapped(phif.iter + 1, en.maxIt)
    /\ LET Evaluated(e) ==
               /\ ~PhiGradientSmall(en, phif, e, phif.iter + 1)
               /\ enc' = [enc EXCEPT !.intercept = e.intercept, !.beta = e.beta]
               /\ LET Curved(h) ==
                          /\ en' = [en EXCEPT !.hessBuff = h.hessBuff,
                                              !.hessBuffKeep = h.hessBuffKeep]
                          /\ phif' = PhiStep(phif, e,
                                             evalPhiGrad(en, phif.candA, e.beta,
                                                         e.intercept, phif.multFact),
                                             h)
                  IN  Curved(evalPhiHess(en, e.beta, phif.multFact))
       IN  Evaluated(PhiEval(en, phif, enc.intercept))
    /\ pcEN' = "ls"
    /\ UNCHANGED dalf
    /\ UNCHANGED <<varsIrwen, varsCD>>

\* the line search ends without a step accepted
EN_LineSearchExhausted ==
    /\ pcEN = "ls"
    /\ ~LineSearchContinues(phif.lineSearchIter + 1)
    /\ phif' = [phif EXCEPT !.lineSearchIter = @ + 1]
    /\ pcEN' = "phi"
    /\ UNCHANGED <<en, enc, dalf>>
    /\ UNCHANGED <<varsIrwen, varsCD>>

\* one evaluation of the line search accepts the step
EN_LineSearchAccept ==
    /\ pcEN = "ls"
    /\ LineSearchContinues(phif.lineSearchIter + 1)
    /\ LET Evaluated(e) ==
               /\ LineSearchAccepts(e.phiVal, phif.phiVal, phif.stepSize, phif.decr)
               /\ enc' = [enc EXCEPT !.intercept = e.intercept, !.beta = e.beta]
       IN  Evaluated(PhiEval(en, phif, enc.intercept))
    /\ phif' = [phif EXCEPT !.lineSearchIter = @ + 1, !.lsEvals = @ + 1]
    /\ pcEN' = "phi"
    /\ UNCHANGED <<en, dalf>>
    /\ UNCHANGED <<varsIrwen, varsCD>>

\* one evaluation of the line search rejects the step and shrinks it
EN_LineSearchReject ==
    /\ pcEN = "ls"
    /\ LineSearchContinues(phif.lineSearchIter + 1)
    /\ LET Evaluated(e) ==
               /\ ~LineSearchAccepts(e.phiVal, phif.phiVal, phif.stepSize, phif.decr)
               /\ enc' = [enc EXCEPT !.intercept = e.intercept, !.beta = e.beta]
       IN  Evaluated(PhiEval(en, phif, enc.intercept))
    /\ LET Shrunk(f, stepSize) ==
               [f EXCEPT !.lineSearchIter = @ + 1, !.lsEvals = @ + 1,
                         !.stepSizePrev = f.stepSize,
                         !.stepSize = stepSize,
                         !.candA = VecSub(f.candA,
                                          VecScale(stepSize - f.stepSize, f.stepDir)),
                         !.Xtra = VecSub(f.Xtra,
                                         VecScale(stepSize - f.stepSize, f.XtrStepDir))]
       IN  phif' = Shrunk(phif, FMul(phif.stepSize, LINESEARCH_STEPSIZE_MULTIPLIER))
    /\ pcEN' = "ls"
    /\ UNCHANGED <<en, dalf>>
    /\ UNCHANGED <<varsIrwen, varsCD>>

\* a solver made for a dataset, with its penalty set and no solve in progress
EnInit ==
    /\ \E data \in EnData, intercept \in BOOLEAN, options \in EnOptions,
          alpha \in {Lit(1, 2), Scale}, lambda \in {Lit(1, 2), 2 * Scale} :
         /\ en = setData(setAlphaLambda(ENDal_new(intercept, options), alpha, lambda),
                         data)
         /\ enc \in EnBuffers(data)
    /\ dalf = DalFrame
    /\ phif = <<>>
    /\ pcEN = "idle"
    /\ NoIrwen
    /\ NoCD

NextENDal ==
    \/ EN_computeCoefs
    \/ EN_computeCoefsWeighted
    \/ EN_DalConverged
    \/ EN_DalCapped
    \/ EN_DalMinimize
    \/ EN_PhiCapped
    \/ EN_PhiConverged
    \/ EN_PhiNewton
    \/ EN_LineSearchExhausted
    \/ EN_LineSearchAccept
    \/ EN_LineSearchReject

SpecENDal == EnInit /\ [][NextENDal]_vars

(* The unweighted solve on a dataset whose predictor is large against the  *)
(* step multiplier: a Newton step that brings the slope into the model     *)
(* meets a curvature of eta * |x|^2.                                       *)

\* a solver made for the steep dataset, its step multiplier started at 5
EnSteepInit ==
    /\ \E data \in { MkEnData(<<2 * Scale, 3 * Scale>>,
                                << <<Scale, Scale>>, <<3 * Scale, 3 * Scale>> >>) },
          intercept \in BOOLEAN, options \in EnOptions, etaStart \in {5 * Scale},
          alpha \in {Lit(1, 2), Scale}, lambda \in {Lit(1, 2), 2 * Scale} :
         /\ en = setData(setAlphaLambda(ENDal_new(intercept,
                                                 [options EXCEPT !.etaStart = etaStart]),
                                       alpha, lambda),
                         data)
         /\ enc \in EnBuffers(data)
    /\ dalf = DalFrame
    /\ phif = <<>>
    /\ pcEN = "idle"
    /\ NoIrwen
    /\ NoCD

NextENDalSteep ==
    \/ EN_computeCoefs
    \/ EN_DalConverged
    \/ EN_DalCapped
    \/ EN_DalMinimize
    \/ EN_PhiCapped
    \/ EN_PhiConverged
    \/ EN_PhiNewton
    \/ EN_LineSearchExhausted
    \/ EN_LineSearchAccept
    \/ EN_LineSearchReject

SpecENDalSteep == EnSteepInit /\ [][NextENDalSteep]_vars

(* The setters and the Hessian cache of ENDal on their own: an object with *)
(* three predictors, to which setLambdas and getHessBuff are applied with  *)
(* arguments of the caller's choice.  enc holds the last call: its name    *)
(* and arguments, the matrix returned, the key found in the cache.         *)

setLambdas_L2Share(o, lambda1, lambda2) ==
    [o EXCEPT !.lambda = lambda2 + lambda1,
              !.alpha = IF lambda2 = 0 /\ lambda1 = 0 THEN 0
                        ELSE FDiv(lambda2, lambda2 + lambda1)]

\* ENDal::setLambdas
setLambdas(o, lambda1, lambda2) ==
    [o EXCEPT !.lambda = lambda2 + lambda1,
              !.alpha = IF lambda2 = 0 /\ lambda1 = 0 THEN 0
                        ELSE FDiv(lambda1, lambda2 + lambda1)]

\* a solver with the cache in use, made for two observations of three
\* predictors
OpsInit ==
    /\ \E alpha \in {Lit(1, 2), Scale}, lambda \in {Lit(1, 2), 2 * Scale} :
         en = setData(
                setAlphaLambda(
                  ENDal_new(FALSE, [maxit |-> DalMaxIt, eps |-> 0, warmStart |-> TRUE,
                                    etaStart |-> -Scale, etaStartNumerator |-> Scale,
                                    etaMultiplier |-> 2 * Scale, useBuffer |-> TRUE]),
                  alpha, lambda),
                MkEnData(<<2 * Scale, -Scale>>,
                         << <<Scale, Scale>>, <<Scale, -Lit(1, 2)>>,
                            <<0, 2 * Scale>>, <<-Scale, Scale>> >>))
    /\ enc = [fn |-> "none"]
    /\ dalf = <<>>
    /\ phif = <<>>
    /\ pcEN = "ops"
    /\ NoIrwen
    /\ NoCD

\* ENDal::getHessBuff, called with an ascending list of predictor indices
EN_getHessBuff ==
    /\ pcEN = "ops"
    /\ \E k \in 0..Len(en.Xtr) :
         \E keep \in [1..k -> 1..Len(en.Xtr)] :
            /\ \A t \in 1..(k - 1) : keep[t] < keep[t + 1]
            /\ LET Got(g) ==
                       /\ en' = [en EXCEPT !.hessBuff = g.hessBuff,
                                           !.hessBuffKeep = g.hessBuffKeep]
                       /\ enc' = [fn |-> "getHessBuff", keep |-> keep, hess |-> g.hess,
                                  wasKey |-> en.hessBuffKeep]
               IN  Got(getHessBuff(en, keep))
    /\ UNCHANGED <<dalf, phif, pcEN>>
    /\ UNCHANGED <<varsIrwen, varsCD>>

\* ENDal::setLambdas, called with non-negative arguments
EN_setLambdas ==
    /\ pcEN = "ops"
    /\ \E lambda1 \in {0, Lit(1, 4), Lit(1, 2), Scale},
          lambda2 \in {0, Lit(1, 2), Lit(3, 4), 3 * Scale} :
         /\ en' = setLambdas(en, lambda1, lambda2)
         /\ enc' = [fn |-> "setLambdas", lambda1 |-> lambda1, lambda2 |-> lambda2]
    /\ UNCHANGED <<dalf, phif, pcEN>>
    /\ UNCHANGED <<varsIrwen, varsCD>>

NextENDalOps ==
    \/ EN_getHessBuff
    \/ EN_setLambdas

SpecENDalOps == OpsInit /\ [][NextENDalOps]_vars

--------------------------------------------------------------------------
(* Properties of CDPense::Optimize                                         *)

\* loss + penalty as held in the solver's state
CdObjective == cd.state_.objf_loss + cd.state_.objf_pen

\* the coordinates a cycle updates: the intercept, if any, and every slope
CdCoordinates ==
    cd.loss_.data.n_pred + (IF cd.loss_.include_intercept THEN 1 ELSE 0)

CdOptimizeCalled == pcCD = "idle" /\ cdf'.calls = cdf.calls + 1

\* C7: every Optimize overload called while the loss or the penalty is unset
\* (never set, or cleared by Reset()) throws std::logic_error before any
\* cycle is run and leaves the coefficients and residuals of the state as
\* they were
C7_UnsetThrows ==
    [][ (CdOptimizeCalled /\ (~cd.loss_.set \/ ~cd.penalty_.set)) =>
            /\ cdRet'.kind = "logic_error"
            /\ cdRet'.message \in {"no loss set", "no penalty set"}
            /\ pcCD' = "idle"
            /\ cd' = cd
            /\ cdf'.iter = cdf.iter ]_vars

\* the second call threw after Reset() had cleared an optimizer that had
\* run cycles
C7_Witness ==
    /\ cdRet.kind = "logic_error"
    /\ cdf.calls = 2
    /\ cdf.iter >= 1
    /\ Len(cd.state_.coefs.beta) > 0
    /\ ~cd.loss_.set
    /\ ~cd.penalty_.set

\* the positions inside a cycle
CdInCycle == pcCD \in {"intercept", "coord", "check"}

\* the test at the end of the cycle the optimizer is in
CdConvergedNow ==
    CycleConverged(CdObjective - cdf.objf_before_iter, cd.convergence_tolerance_)

\* C8: Optimize(max_it) runs at most max_it cycles; it returns a success
\* optimum at the first cycle whose squared change of loss + penalty is
\* below the squared tolerance; otherwise, after exactly max_it cycles, it
\* returns the current coefficients with the warning status, the message
\* "Coordinate descent did not converge." and residuals recomputed from
\* those coefficients
C8_CyclesAndReturn ==
    [][ /\ CdInCycle' => (1 <= cdf'.iter /\ cdf'.iter <= cdf'.max_it)
        /\ (pcCD = "check" /\ CdConvergedNow) =>
              /\ pcCD' = "idle"
              /\ cdRet' = MakeOptimum(cd.state_.coefs, cd.state_.residuals, kOk, "")
        /\ (pcCD = "check" /\ ~CdConvergedNow /\ cdf.iter < cdf.max_it) =>
              /\ CdInCycle'
              /\ cdf'.iter = cdf.iter + 1
        /\ (pcCD' = "idle" /\ cdRet'.kind = "optimum" /\ cdRet'.status = kOk
              /\ <<pcCD, cdf.calls>> # <<pcCD', cdf'.calls>>) =>
              (pcCD = "check" /\ CdConvergedNow)
        /\ (pcCD' = "idle" /\ cdRet'.kind = "optimum" /\ cdRet'.status = kWarning
              /\ <<pcCD, cdf.calls>> # <<pcCD', cdf'.calls>>) =>
              /\ cdf'.iter = cdf'.max_it + 1
              /\ ~(pcCD = "check" /\ CdConvergedNow)
              /\ cdRet'.message = "Coordinate descent did not converge."
              /\ cdRet'.coefs = cd'.state_.coefs
              /\ cdRet'.residuals = Residuals(cd'.loss_, cd'.state_.coefs)
              /\ cd'.state_.residuals = cdRet'.residuals ]_vars

\* a call with max_it >= 2 ran max_it cycles, none converged, and returned
\* the warning
C8_Witness ==
    /\ pcCD = "idle"
    /\ cdRet.status = kWarning
    /\ cdf.max_it >= 2
    /\ cdf.iter = cdf.max_it + 1
    /\ cd.convergence_tolerance_ > 0

--------------------------------------------------------------------------
(* Properties of IRWEN::compute                                            *)

IrwenZero == ZeroVec(irwen.data.numVar)

\* a solve has been made and the loop test evaluated
IrwenAfterSolve == pcIrwen \in {"loop", "done"} /\ irwen.iteration >= 1

\* C3 as stated: once the solver outputs the exact zero vector, compute()
\* returns no later than one iteration after the first such output, and
\* relChangeVal is exactly 0 when it returns
C3_ZeroOutputConverges ==
    /\ (pcIrwen = "loop" /\ irwen.iteration >= 1 /\ irwen.currentCoef = IrwenZero)
          => irwen.oldCoef # IrwenZero
    /\ (pcIrwen = "done" /\ irwen.currentCoef = IrwenZero)
          => irwen.relChangeVal = 0

\* C3 amended: once the solver outputs the exact zero vector, compute()
\* returns no later than one iteration after the first such output; at the
\* return relChangeVal is exactly 0, unless the loop stops at the first zero
\* output itself, reached from a non-zero vector, because the iteration cap
\* is reached or the relative change there does not exceed eps
C3_ZeroOutputConvergesUnlessStopped ==
    /\ (pcIrwen = "loop" /\ irwen.iteration >= 1 /\ irwen.currentCoef = IrwenZero)
          => irwen.oldCoef # IrwenZero
    /\ (pcIrwen = "done" /\ irwen.currentCoef = IrwenZero /\ irwen.oldCoef = IrwenZero)
          => irwen.relChangeVal = 0
    /\ (pcIrwen = "done" /\ irwen.currentCoef = IrwenZero /\ irwen.relChangeVal # 0)
          => /\ irwen.oldCoef # IrwenZero
             /\ (irwen.iteration >= irwen.maxIt \/ irwen.relChangeVal <= irwen.eps)

\* compute() returned before the cap, one iteration after the first zero output
C3_Witness ==
    /\ pcIrwen = "done"
    /\ irwen.iteration >= 2
    /\ irwen.iteration < irwen.maxIt
    /\ irwen.currentCoef = IrwenZero
    /\ irwen.oldCoef = IrwenZero
    /\ irwen.relChangeVal = 0

\* C9: compute() makes at least one and at most max(1, maxIt) solves, one per
\* iteration; it goes on exactly while the relative change is above eps and
\* the iteration count is below maxIt; the solver's status decides the
\* warning and nothing else
C9_IrwenTermination ==
    /\ irwen.enCalls = irwen.iteration
    /\ irwen.iteration <= Max(1, irwen.maxIt)
    /\ pcIrwen = "done" =>
          /\ irwen.iteration >= 1
          /\ (~(irwen.relChangeVal > irwen.eps) \/ irwen.iteration >= irwen.maxIt)
    /\ (pcIrwen = "loop" /\ irwen.iteration >= 1) =>
          /\ irwen.relChangeVal > irwen.eps
          /\ irwen.iteration < irwen.maxIt
    /\ IrwenAfterSolve => (irwen.warned <=> irwen.enStatus > 0)

\* the cap stopped a loop that had not converged and whose last solve warned
C9_Witness ==
    /\ pcIrwen = "done"
    /\ irwen.maxIt >= 2
    /\ irwen.iteration = irwen.maxIt
    /\ irwen.relChangeVal > irwen.eps
    /\ irwen.warned

\* C10: with a numerically zero previous vector, a squared change below
\* NUMERICAL_TOLERANCE ends the loop and a squared change at or above it
\* forces one more iteration whenever the cap has not been reached
C10_ZeroPreviousVector ==
    (IrwenAfterSolve /\ irwen.norm2Old < NUMERICAL_TOLERANCE) =>
        /\ SqChange(irwen.oldCoef, irwen.currentCoef) < NUMERICAL_TOLERANCE
              => pcIrwen = "done"
        /\ (/\ SqChange(irwen.oldCoef, irwen.currentCoef) >= NUMERICAL_TOLERANCE
            /\ irwen.iteration < irwen.maxIt)
              => pcIrwen = "loop"

--------------------------------------------------------------------------
(* Properties of ENDal                                                     *)

\* C1: in dal, the dual objective value used in a duality-gap check is never
\* greater than the value used in the check of the outer iteration before
C1_DualNonIncreasing ==
    (pcEN # "absent" /\ enc.dalCalls = 1 /\ dalf.checks >= 2)
        => dalf.dualFunVal <= dalf.dualFunValPrev

\* a weighted, warm-started check at which the computed dual value was above
\* the value of the check before and the guard put the earlier value back
C1_Witness ==
    /\ pcEN # "absent"
    /\ enc.dalCalls = 1
    /\ dalf.checks >= 2
    /\ dalf.dualFunValRaw > dalf.dualFunValPrev
    /\ dalf.dualFunVal = dalf.dualFunValPrev

\* the intercept a finished call on intercept-only data had to return: the
\* mean of the response, weighted as sum(w % y) / sum(w) in a weighted call
ResponseMean ==
    IF en.bufferSizeNobs = 0 THEN 0
    ELSE IF enc.fn = "computeCoefsWeighted"
         THEN RDiv(SumSeq([i \in 1..Len(en.y) |-> enc.weights[i] * en.y[i]]),
                   SumSeq(enc.weights))
    ELSE Mean(en.y)

\* C4: with the intercept's column only, computeCoefs and computeCoefsWeighted
\* return without calling dal, with the intercept at the (weighted) mean of
\* the response (0 with no observations), no non-zero slope and the
\* residuals at the response minus that intercept
C4_InterceptOnlyFastPath ==
    (pcEN = "idle" /\ enc.calls > 0 /\ en.bufferSizeNvar = 1)
        => /\ enc.dalCalls = 0
           /\ enc.intercept = ResponseMean
           /\ \A j \in 1..Len(enc.beta) : enc.beta[j] = 0
           /\ enc.resids = [i \in 1..Len(en.y) |-> en.y[i] - enc.intercept]

\* the residuals of the coefficients in the caller's buffer
ResidualsOfCoefs(c, withIntercept) ==
    [i \in 1..Len(c.origY) |->
        c.origY[i] - (IF withIntercept THEN c.intercept ELSE 0)
        - SumSeq([j \in 1..Len(c.beta) |-> FMul(c.origXtr[j][i], c.beta[j])])]

\* C5: dal sets status 1 and "algorithm did not converge" exactly when none
\* of its gap checks was below eps and maxIt inner steps were made; it
\* returns the coefficients of the last inner step with their residuals;
\* a gap below eps after the maxIt-th inner step is not flagged.  The
\* step from "dal" to "idle" is the return of dal and of its caller.
C5_StatusOnReturn ==
    [][(pcEN = "dal" /\ pcEN' = "idle") =>
        /\ enc'.statusWritten <=> ~dalf'.below
        /\ enc'.statusWritten =>
              /\ dalf'.checks = en.maxIt + 1
              /\ dalf'.phiCalls = en.maxIt
              /\ en'.status = 1
              /\ en'.statusMessage = "algorithm did not converge"
        /\ ~enc'.statusWritten =>
              /\ en'.status = en.status
              /\ en'.statusMessage = en.statusMessage
        /\ enc'.intercept = enc.intercept
        /\ enc'.beta = enc.beta
        /\ enc'.resids = ResidualsOfCoefs(enc', en.intercept)]_vars

\* a solve whose gap fell below eps right after the maxIt-th inner step
\* returned unflagged, on an object an earlier solve had flagged
C5_Witness ==
    /\ pcEN = "idle"
    /\ enc.dalCalls = 1
    /\ en.maxIt >= 1
    /\ dalf.below
    /\ dalf.phiCalls = en.maxIt
    /\ ~enc.statusWritten
    /\ en.status = 1

\* C6: dal calls minimizePhi at most maxIt times, a call of minimizePhi
\* takes at most maxIt Newton steps, and a Newton step makes at most
\* LINESEARCH_MAX_STEP line-search evaluations
C6_SolveBounded ==
    (pcEN # "absent" /\ enc.dalCalls = 1)
        => /\ dalf.phiCalls <= en.maxIt
           /\ dalf.checks <= en.maxIt + 1
           /\ phif # <<>> =>
                 /\ phif.newtons <= en.maxIt
                 /\ phif.lsEvals <= LINESEARCH_MAX_STEP

\* a solve that never had its gap below eps and never had a step accepted
\* returned after maxIt calls of maxIt Newton steps of 20 evaluations each
C6_Witness ==
    /\ pcEN = "idle"
    /\ enc.dalCalls = 1
    /\ enc.statusWritten
    /\ en.maxIt = DalMaxIt
    /\ dalf.phiCalls = en.maxIt
    /\ phif.newtons = en.maxIt
    /\ phif.lsEvals = LINESEARCH_MAX_STEP

\* C11: with the Hessian cache enabled, the matrix getHessBuff returns is
\* Xtr[keep]^T * Xtr[keep] of the data of the solve in progress, whatever
\* solves were made on the object before
C11_CacheMatchesData ==
    (pcEN = "ls" /\ en.useHessBuffer)
        => en.hessBuff = RowsCrossProd(en.Xtr, en.hessBuffKeep, Len(en.y))

\* C12: getHessBuff recomputes the cached matrix and replaces the cached key
\* if and only if the requested index set differs from the key in size or in
\* an element; a request equal to the key leaves the matrix and the key alone
C12_CacheKeyedBySet ==
    [][(pcEN = "ops" /\ enc'.fn = "getHessBuff" /\ enc' # enc) =>
        IF enc'.keep # en.hessBuffKeep
        THEN /\ en'.hessBuffKeep = enc'.keep
             /\ en'.hessBuff = RowsCrossProd(en.Xtr, enc'.keep, Len(en.y))
             /\ enc'.hess = en'.hessBuff
        ELSE /\ en'.hessBuffKeep = en.hessBuffKeep
             /\ en'.hessBuff = en.hessBuff
             /\ enc'.hess = en.hessBuff]_vars

\* a request for one index set answered from a cache keyed by another set of
\* the same size: the key is the requested set and the matrix is its own
C12_Witness ==
    /\ pcEN = "ops"
    /\ enc.fn = "getHessBuff"
    /\ Len(enc.wasKey) = Len(enc.keep)
    /\ Len(enc.keep) = 2
    /\ enc.wasKey # enc.keep
    /\ en.hessBuffKeep = enc.keep
    /\ enc.hess # RowsCrossProd(en.Xtr, enc.wasKey, Len(en.y))

\* C13: dal starts every solve with both step-size multipliers at etaStart
\* if that is positive and at min(etaStartNumerator / (n * lambda), 1e6)
\* otherwise, whatever an earlier solve left; both stay positive, and after
\* k inner steps the slope multiplier is the starting value times
\* etaMultiplier^k
C13_EtaResetAndGrowth ==
    (pcEN # "absent" /\ pcEN # "ops" /\ enc.dalCalls = 1) =>
        LET RECURSIVE Grown(_, _)
            Grown(eta, k) == IF k = 0 THEN eta
                             ELSE Grown(FMul(eta, en.etaMultiplier), k - 1)
            Started(eta) ==
                /\ en.eta[1] = Grown(eta, IF pcEN \in {"phi", "ls"}
                                          THEN dalf.phiCalls - 1 ELSE dalf.phiCalls)
                /\ dalf.phiCalls = 0 => en.eta[2] = eta
        IN  /\ Started(IF en.etaStart > 0 THEN en.etaStart
                       ELSE Min(FDiv(en.etaStartNumerator, Len(en.y) * en.lambda),
                                1000000 * Scale))
            /\ en.eta[1] > 0
            /\ en.eta[2] > 0

\* the second solve on an object, two inner steps made: the first solve
\* had left the multipliers grown, the intercept's more than the slopes'
C13_Witness ==
    /\ pcEN = "dal"
    /\ enc.calls = 2
    /\ enc.dalCalls = 1
    /\ dalf.phiCalls = 2
    /\ en.intercept
    /\ en.eta[2] > en.eta[1]

\* C14: after setLambdas(lambda1, lambda2) with non-negative arguments,
\* lambda = lambda1 + lambda2 and alpha = lambda1 / (lambda1 + lambda2), 0
\* when both are zero; alpha * lambda is lambda1 and (1 - alpha) * lambda is
\* lambda2, to the resolution of the quotient, and setAlphaLambda with that
\* alpha and lambda gives the same object
C14_LambdasAsAlphaLambda ==
    (pcEN = "ops" /\ enc.fn = "setLambdas") =>
        /\ en.lambda = enc.lambda1 + enc.lambda2
        /\ en.lambda = 0 => en.alpha = 0
        /\ 2 * Abs(en.alpha * en.lambda - enc.lambda1 * Scale) <= en.lambda
        /\ 2 * Scale * Abs(FMul(en.alpha, en.lambda) - enc.lambda1) <= en.lambda + Scale
        /\ 2 * Scale * Abs(FMul(Scale - en.alpha, en.lambda) - enc.lambda2)
               <= en.lambda + Scale
        /\ setAlphaLambda(en, en.alpha, en.lambda) = en

\* setLambdas(0.25, 3) was called: lambda is 3.25 and alpha a rounded 1/13
C14_Witness ==
    /\ pcEN = "ops"
    /\ enc.fn = "setLambdas"
    /\ enc.lambda1 = Lit(1, 4)
    /\ enc.lambda2 = 3 * Scale
    /\ en.lambda = Lit(13, 4)
    /\ en.alpha = Lit(8, 100)

\* C15: every Optimize call computes the Lipschitz bounds before its first
\* cycle, from the scale the state has when the solve starts
C15_BoundsOfThisSolve ==
    (pcCD = CycleStart(cd) /\ cdf.iter = 1 /\ cdf.j = 1 /\ pcCD \in {"intercept", "coord"})
        => LET Fresh(lb) ==
                   /\ cd.lipschitz_bounds_ = lb.lipschitz_bounds_
                   /\ cd.lipschitz_bound_intercept_ = lb.lipschitz_bound_intercept_
           IN  Fresh(UpdateLipschitzBounds(cd.loss_, cd.state_.mscale))

\* C16: in a solve with an intercept, every return of minimizePhi multiplies
\* the slope multiplier by etaMultiplier and the intercept multiplier by
\* 10 * etaMultiplier if it is not the first inner step and the absolute
\* dual mass |sum(sqrtWeights % a)| is above eps and above half its value
\* after the inner step before, by etaMultiplier otherwise; the intercept
\* multiplier is never below the slope multiplier
C16_InterceptEtaGrowth ==
    [][(pcEN \in {"phi"} /\ pcEN' = "dal" /\ en.intercept) =>
        LET Weighed(mass, massPrev) ==
                /\ en'.eta[1] = FMul(en.eta[1], en.etaMultiplier)
                /\ en'.eta[2] =
                       IF /\ dalf.iter > 1
                          /\ mass > en.eps
                          /\ mass > FMul(Lit(1, 2), massPrev)
                       THEN FMul(en.eta[2], 10 * en.etaMultiplier)
                       ELSE FMul(en.eta[2], en.etaMultiplier)
                /\ en'.eta[2] >= en'.eta[1]
        IN  Weighed(Abs(DualMass(en', en'.a)), Abs(dalf.aL1Prev))]_vars

\* C17: minimizePhi leaves the dual candidate, once moved along a Newton
\* direction, only at a step that satisfies the sufficient-decrease condition
\* phi(new) < phi(old) - 0.3 * stepSize * decr, and the value of phi at the top
\* of a Newton iteration is not greater than at the top of the previous one
C17_SufficientDecrease ==
    [][/\ (pcEN = "ls" /\ pcEN' = "phi" /\ phif.stepDir # ZeroVec(Len(phif.stepDir))) =>
              LineSearchAccepts(PhiEval(en, phif', enc.intercept).phiVal,
                                phif.phiVal, phif'.stepSize, phif.decr)
       /\ (pcEN = "phi" /\ pcEN' \in {"ls", "dal"} /\ phif.newtons >= 1) =>
              phif'.phiVal <= phif.phiVal]_vars

\* C18: in every Newton iteration of minimizePhi the threshold the squared
\* gradient norm is compared with is the larger of the movement-derived value
\* and half the tolerance, max(computed threshold, 0.5 * eps)
C18_ThresholdFloor ==
    (pcEN = "phi" /\ ~PhiCapped(phif.iter + 1, en.maxIt)) =>
        LET Held(e) ==
                PhiThreshold(en, phif, e.beta, e.intercept)
                    = Max(PhiMovement(en, phif, e.beta, e.intercept),
                          FMul(Lit(1, 2), en.eps))
        IN  Held(PhiEval(en, phif, enc.intercept))

\* C19: after the line search of every coordinate of a cycle of Optimize,
\* accepted, rolled back or skipped, the residuals of the state are those of
\* its coefficients, objf_loss and mscale are the loss and the scale of these
\* residuals and the scale estimator starts from the scale of the state; the
\* recomputation of the residuals every reset_iter cycles changes nothing
C19_StateOfCoefs ==
    [][LET Close(a, b) == Abs(a - b) <= 3
           Near(u, v) ==
               /\ Len(u) = Len(v)
               /\ \A i \in 1..Len(u) : Close(u[i], v[i])
           Evaluated(st, loss_eval) ==
               /\ Close(st.objf_loss, loss_eval.loss)
               /\ Close(st.mscale, loss_eval.scale)
               /\ cd'.loss_.initial = st.mscale
       IN  /\ (pcCD \in {"intercept", "coord"} /\ pcCD' \in {"coord", "check"}) =>
                  /\ Near(cd'.state_.residuals, Residuals(cd'.loss_, cd'.state_.coefs))
                  /\ Evaluated(cd'.state_,
                               EvaluateResiduals(cd'.loss_, cd'.state_.residuals))
           /\ (pcCD = "check" /\ pcCD' \in {"intercept", "coord", "check"}) =>
                  /\ Near(cd'.state_.residuals, cd.state_.residuals)
                  /\ cd'.state_ = [cd.state_ EXCEPT !.residuals = cd'.state_.residuals]]_vars

\* C20: the line search of a coordinate, intercept or slope, considers at
\* most linesearch_ss_num step sizes: it makes at most linesearch_ss_num
\* evaluations of the loss
C20_LineSearchAttempts ==
    (pcCD \in {"coord", "check"}) => cdf.evals <= cd.config_.linesearch_ss_num

\* C21: the status after a solve is that of this solve: a solve that ends
\* with its relative duality gap below eps leaves the status at 0, whatever
\* the earlier solves on the object did
C21_StatusOfThisSolve ==
    (pcEN = "idle" /\ enc.dalCalls = 1 /\ dalf.below) => en.status = 0

\* C22: when a call of Optimize starts its first cycle, the state is that of
\* what is installed: objf_pen is the penalty in use at the coefficients of
\* the state, and the residuals, the scale and objf_loss are those of the
\* loss in use at these coefficients.  Values are compared up to the
\* rounding of three units in the last place.
C22_StateOfInstalled ==
    [][(CdOptimizeCalled /\ CdInCycle') =>
          LET Close(a, b) == Abs(a - b) <= 3
              Near(u, v) ==
                  /\ Len(u) = Len(v)
                  /\ \A i \in 1..Len(u) : Close(u[i], v[i])
              Fresh(st, of) ==
                  /\ Close(st.objf_pen, of.objf_pen)
                  /\ Near(st.residuals, of.residuals)
                  /\ Close(st.mscale, of.mscale)
                  /\ Close(st.objf_loss, of.objf_loss)
          IN  Fresh(cd'.state_,
                    ResetState(cd'.loss_, cd'.penalty_, cd'.state_.coefs))]_vars

\* C23: a solver made without an intercept returns the intercept 0 from every
\* computeCoefs and computeCoefsWeighted call, whatever the dimensions of the
\* data and the warm-start setting, and the residuals it returns are the
\* unweighted response minus the unweighted fit of the returned coefficients
C23_NoInterceptIsZero ==
    (pcEN = "idle" /\ enc.calls >= 1 /\ ~en.intercept) =>
        /\ enc.intercept = 0
        /\ enc.resids = ResidualsOfCoefs(enc, FALSE)

====
